---- MODULE Spec2Model ----
(***************************************************************************)
(* Model of cruise_control_test_generic.py: the in-memory signal store     *)
(* (_MockBus), the high-level actions, the two verification predicates and *)
(* the two-step scenario run_test.                                         *)
(*                                                                         *)
(* Python values are modelled as tuples: the integer n is <<n>> and None   *)
(* is <<>>, so that "None == 0" is an ordinary (false) equality while      *)
(* "None <= 35" has to be decided by the comparison operator.              *)
(***************************************************************************)
EXTENDS Integers, Sequences, FiniteSets, TLC

VARIABLES
    signals,  \* _BUS.signals: the dict of the singleton bus
    pc,       \* "idle" before run_test is entered, then the statement it is at
    nops,     \* write_signal calls made so far by the caller
    last,     \* the most recent direct API call: arguments, result, store before
    pre,      \* the store as it was when run_test was entered
    log,      \* the records run_test has logged so far (root logger at DEBUG)
    step1,    \* result of verify_cruise_control_inactive() in run_test, "" before
    step2,    \* result of verify_cruise_control_active() in run_test, "" before
    clock     \* seconds spent in sleep_seconds

vars == <<signals, pc, nops, last, pre, log, step1, step2, clock>>

(* ---------------------------- bounds ----------------------------------- *)

\* number of write_signal calls a caller makes before it enters run_test
MaxPreWrites == 2

\* number of write_signal calls a caller makes in a session of direct API calls
MaxApiWrites == 4

(* ---------------------------- values ----------------------------------- *)

None == <<>>

I(n) == <<n>>

\* values handed to write_signal by a caller of the module
Values == {None, I(0), I(1), I(6), I(35), I(36)}

\* values handed to verify_cruise_control_active as target_speed_max
TargetMaxes == {0, 35}

DEFAULT_TARGET_SPEED_MAX == 35

DELAY_SHORT == 2

DELAY_MEDIUM == 4

CCSignals == {"CruiseControlActive", "CruiseControlEnabledSwitch",
              "CruiseControlStates", "CruiseControlSetSpeed"}

SeededNames == CCSignals \cup {"VehicleSpeed"}

Step1Names == {"PowerSupply", "EngineStart"}

Step2Names == {"VehicleSpeed", "AccPedal", "GearIncreaseOne", "CruiseControlSetButton"}

Names == SeededNames \cup Step1Names \cup Step2Names

\* press_acc_pedal(40)
PEDAL_PERCENT == 40

\* random.randint(30, 35): both ends inclusive
TargetSpeeds == 30..35

(* ---------------------------- _MockBus --------------------------------- *)

\* names a caller of the module writes in the model: before run_test, and in
\* a session of direct API calls
CallerNames == CCSignals \cup {"VehicleSpeed", "AccPedal"}

ApiNames == CCSignals \cup {"AccPedal"}

\* the dict literal of __post_init__
Seeded == [n \in SeededNames |-> I(0)]

\* self.signals[name] = value
write_seeded_only(s, name, value) ==
    IF name \in DOMAIN s THEN [s EXCEPT ![name] = value] ELSE s

write(s, name, value) ==
    [n \in (DOMAIN s) \cup {name} |-> IF n = name THEN value ELSE s[n]]

\* self.signals.get(name): the value and the store the lookup leaves behind
read_default0(s, name) ==
    [value |-> IF name \in DOMAIN s THEN s[name] ELSE I(0), signals |-> s]

read_setdefault(s, name) ==
    [value   |-> IF name \in DOMAIN s THEN s[name] ELSE None,
     signals |-> IF name \in DOMAIN s THEN s ELSE write(s, name, None)]

read(s, name) ==
    [value |-> IF name \in DOMAIN s THEN s[name] ELSE None, signals |-> s]

(* ---------------------------- log records ------------------------------ *)

Rec(kind, name, value) == [kind |-> kind, name |-> name, value |-> value]

\* sleep_seconds: logs the wait, then blocks for that long
sleep_seconds(st, seconds) ==
    [st EXCEPT !.log = Append(@, Rec("SLEEP", "", I(seconds))),
               !.clock = @ + seconds]

\* write_signal: logs the write and stores the value
write_signal(st, name, value) ==
    [st EXCEPT !.log = Append(@, Rec("WRITE", name, value)),
               !.signals = write(@, name, value)]

(* ---------------------------- high-level actions ----------------------- *)
\* st is the part of the process state an action touches:
\* [signals, log, clock]

power_on(st) == sleep_seconds(write_signal(st, "PowerSupply", I(1)), DELAY_SHORT)

engine_start_sets_active(st) ==
    sleep_seconds(write_signal(st, "CruiseControlActive", I(1)), DELAY_SHORT)

engine_start(st) == sleep_seconds(write_signal(st, "EngineStart", I(1)), DELAY_SHORT)

increase_gear(st) == sleep_seconds(write_signal(st, "GearIncreaseOne", I(1)), DELAY_SHORT)

press_acc_pedal(st, percent) ==
    sleep_seconds(write_signal(st, "AccPedal", I(percent)), DELAY_MEDIUM)

press_cc_set_button_sets_active(st) ==
    sleep_seconds(write_signal(write_signal(st, "CruiseControlSetButton", I(1)),
                               "CruiseControlActive", I(1)), DELAY_SHORT)

press_cc_set_button(st) ==
    sleep_seconds(write_signal(st, "CruiseControlSetButton", I(1)), DELAY_SHORT)

(* ---------------------------- comparisons ------------------------------ *)

\* a == b on int / None operands
PyEq(a, b) == IF a = b THEN "True" ELSE "False"

\* a <= b on int / None operands: ordering None against an int raises TypeError
PyLe(a, b) ==
    IF a = None \/ b = None THEN "TypeError"
    ELSE IF a[1] <= b[1] THEN "True" ELSE "False"

Compare(op, a, b) == IF op = "==" THEN PyEq(a, b) ELSE PyLe(a, b)

Check(name, op, expected) == [name |-> name, op |-> op, expected |-> expected]

\* "c1 and c2 and ...": the operands are evaluated left to right, each one
\* reading its signal (and logging the read); evaluation stops at the first
\* operand that is not true, or that raises.
RECURSIVE EvalAnd(_, _)
EvalAnd(st, checks) ==
    IF checks = <<>> THEN [result |-> "True", st |-> st]
    ELSE LET c   == Head(checks)
             r   == read(st.signals, c.name)
             st2 == [st EXCEPT !.signals = r.signals,
                               !.log = Append(@, Rec("READ", c.name, r.value))]
             cmp == Compare(c.op, r.value, c.expected)
         IN  IF cmp = "True" THEN EvalAnd(st2, Tail(checks))
             ELSE [result |-> cmp, st |-> st2]

(* ---------------------------- verification predicates ------------------ *)

InactiveChecksNoSetSpeed ==
    << Check("CruiseControlActive", "==", I(0)),
       Check("CruiseControlEnabledSwitch", "==", I(0)),
       Check("CruiseControlStates", "==", I(0)) >>

InactiveChecks ==
    << Check("CruiseControlActive", "==", I(0)),
       Check("CruiseControlEnabledSwitch", "==", I(0)),
       Check("CruiseControlStates", "==", I(0)),
       Check("CruiseControlSetSpeed", "==", I(0)) >>

verify_cruise_control_inactive(st) == EvalAnd(st, InactiveChecks)

ActiveChecksStrict(target_speed_max) ==
    << Check("CruiseControlActive", "==", I(1)),
       Check("CruiseControlEnabledSwitch", "==", I(1)),
       Check("CruiseControlStates", "==", I(6)),
       Check("CruiseControlSetSpeed", "<=", I(target_speed_max - 1)) >>

ActiveChecks(target_speed_max) ==
    << Check("CruiseControlActive", "==", I(1)),
       Check("CruiseControlEnabledSwitch", "==", I(1)),
       Check("CruiseControlStates", "==", I(6)),
       Check("CruiseControlSetSpeed", "<=", I(target_speed_max)) >>

verify_cruise_control_active(st, target_speed_max) ==
    EvalAnd(st, ActiveChecks(target_speed_max))

(* ---------------------------- state ------------------------------------ *)

\* the process state the functions above work on
St == [signals |-> signals, log |-> log, clock |-> clock]

NoCall == [op |-> "none", name |-> "", arg |-> None, value |-> None,
           result |-> "", reads |-> 0, before |-> Seeded]

Call(op, name, arg, value, result, reads) ==
    [op |-> op, name |-> name, arg |-> arg, value |-> value,
     result |-> result, reads |-> reads, before |-> signals]

Init ==
    /\ signals = Seeded
    /\ pc = "idle"
    /\ nops = 0
    /\ last = NoCall
    /\ pre = Seeded
    /\ log = <<>>
    /\ step1 = ""
    /\ step2 = ""
    /\ clock = 0


(* ---------------------------- direct API calls ------------------------- *)
\* A caller of the module (a unit test, a REPL) uses write_signal,
\* read_signal and the two predicates on the singleton bus.  The log of
\* these calls is not retained.

Fresh == [signals |-> signals, log |-> <<>>, clock |-> clock]

Reads(lg) == Len(SelectSeq(lg, LAMBDA r : r.kind = "READ"))

ApiWrite(name, value) ==
    /\ pc = "idle"
    /\ nops < MaxApiWrites
    /\ nops' = nops + 1
    /\ signals' = write_signal(Fresh, name, value).signals
    /\ last' = Call("write", name, value, None, "", 0)
    /\ UNCHANGED <<pc, pre, log, step1, step2, clock>>

ApiRead(name) ==
    /\ pc = "idle"
    /\ LET r == read(signals, name)
       IN  /\ signals' = r.signals
           /\ last' = Call("read", name, None, r.value, "", 1)
    /\ UNCHANGED <<pc, nops, pre, log, step1, step2, clock>>

ApiVerifyInactive ==
    /\ pc = "idle"
    /\ LET r == verify_cruise_control_inactive(Fresh)
       IN  /\ signals' = r.st.signals
           /\ last' = Call("verify_inactive", "", None, None, r.result, Reads(r.st.log))
    /\ UNCHANGED <<pc, nops, pre, log, step1, step2, clock>>

ApiVerifyActive(target_speed_max) ==
    /\ pc = "idle"
    /\ LET r == verify_cruise_control_active(Fresh, target_speed_max)
       IN  /\ signals' = r.st.signals
           /\ last' = Call("verify_active", "", I(target_speed_max), None,
                           r.result, Reads(r.st.log))
    /\ UNCHANGED <<pc, nops, pre, log, step1, step2, clock>>

NextApi ==
    \/ \E name \in ApiNames, value \in Values : ApiWrite(name, value)
    \/ \E name \in Names : ApiRead(name)
    \/ ApiVerifyInactive
    \/ \E m \in TargetMaxes : ApiVerifyActive(m)

SpecApi == Init /\ [][NextApi]_vars

(* ---------------------------- run_test --------------------------------- *)

\* the statement run_test executes after statement p
StmtAfterGearFirst(p) ==
    CASE p = "power_on"            -> "engine_start"
      [] p = "engine_start"        -> "verify_inactive"
      [] p = "target_speed"        -> "increase_gear"
      [] p = "increase_gear"       -> "press_acc_pedal"
      [] p = "press_acc_pedal"     -> "press_cc_set_button"
      [] p = "press_cc_set_button" -> "verify_active"

StmtAfter(p) ==
    CASE p = "power_on"            -> "engine_start"
      [] p = "engine_start"        -> "verify_inactive"
      [] p = "target_speed"        -> "press_acc_pedal"
      [] p = "press_acc_pedal"     -> "increase_gear"
      [] p = "increase_gear"       -> "press_cc_set_button"
      [] p = "press_cc_set_button" -> "verify_active"

\* if verify_cruise_control_inactive(): ... else: ...; return
AfterStep1NoReturn(result) == "target_speed"

AfterStep1(result) == IF result = "True" THEN "target_speed" ELSE "Step1Failed"

\* if verify_cruise_control_active(): ... else: ...   (an exception propagates)
AfterStep2(result) == IF result = "TypeError" THEN "raised" ELSE "Step2Checked"

Terminal == {"Step1Failed", "Step2Checked", "raised"}

Info(st, msg) == [st EXCEPT !.log = Append(@, Rec("INFO", msg, None))]

Error(st, msg) == [st EXCEPT !.log = Append(@, Rec("ERROR", msg, None))]

\* commit the part of the state a step of run_test worked on
Commit(st) ==
    /\ signals' = st.signals
    /\ log' = st.log
    /\ clock' = st.clock

\* a caller pre-seeds the bus before the scenario
PreWrite(name, value) ==
    /\ pc = "idle"
    /\ nops < MaxPreWrites
    /\ nops' = nops + 1
    /\ signals' = write_signal(Fresh, name, value).signals
    /\ UNCHANGED <<pc, last, pre, log, step1, step2, clock>>

Enter ==
    /\ pc = "idle"
    /\ pc' = "power_on"
    /\ pre' = signals
    /\ Commit(Info(Info(St, "Cruise-Control Test"), "STEP 1"))
    /\ UNCHANGED <<nops, last, step1, step2>>

RunPowerOn ==
    /\ pc = "power_on"
    /\ Commit(power_on(St))
    /\ pc' = StmtAfter(pc)
    /\ UNCHANGED <<nops, last, pre, step1, step2>>

RunEngineStart ==
    /\ pc = "engine_start"
    /\ Commit(engine_start(St))
    /\ pc' = StmtAfter(pc)
    /\ UNCHANGED <<nops, last, pre, step1, step2>>

RunVerifyInactive ==
    /\ pc = "verify_inactive"
    /\ LET r == verify_cruise_control_inactive(St)
       IN  /\ step1' = r.result
           /\ pc' = AfterStep1(r.result)
           /\ IF r.result = "True"
              THEN Commit(Info(Info(r.st, "Step 1 PASSED"), "STEP 2"))
              ELSE Commit(Error(r.st, "Step 1 FAILED"))
    /\ UNCHANGED <<nops, last, pre, step2>>

RunTargetSpeed ==
    /\ pc = "target_speed"
    /\ \E target_speed \in TargetSpeeds :
           Commit(write_signal(St, "VehicleSpeed", I(target_speed)))
    /\ pc' = StmtAfter(pc)
    /\ UNCHANGED <<nops, last, pre, step1, step2>>

RunPressAccPedal ==
    /\ pc = "press_acc_pedal"
    /\ Commit(press_acc_pedal(St, PEDAL_PERCENT))
    /\ pc' = StmtAfter(pc)
    /\ UNCHANGED <<nops, last, pre, step1, step2>>

RunIncreaseGear ==
    /\ pc = "increase_gear"
    /\ Commit(increase_gear(St))
    /\ pc' = StmtAfter(pc)
    /\ UNCHANGED <<nops, last, pre, step1, step2>>

RunPressCcSetButton ==
    /\ pc = "press_cc_set_button"
    /\ Commit(press_cc_set_button(St))
    /\ pc' = StmtAfter(pc)
    /\ UNCHANGED <<nops, last, pre, step1, step2>>

RunVerifyActive ==
    /\ pc = "verify_active"
    /\ LET r == verify_cruise_control_active(St, DEFAULT_TARGET_SPEED_MAX)
       IN  /\ step2' = r.result
           /\ pc' = AfterStep2(r.result)
           /\ CASE r.result = "True"  -> Commit(Info(r.st, "Step 2 PASSED"))
                [] r.result = "False" -> Commit(Error(r.st, "Step 2 FAILED"))
                [] OTHER              -> Commit(r.st)
    /\ UNCHANGED <<nops, last, pre, step1>>

Next ==
    \/ \E name \in CallerNames, value \in Values : PreWrite(name, value)
    \/ Enter
    \/ RunPowerOn
    \/ RunEngineStart
    \/ RunVerifyInactive
    \/ RunTargetSpeed
    \/ RunPressAccPedal
    \/ RunIncreaseGear
    \/ RunPressCcSetButton
    \/ RunVerifyActive

Spec == Init /\ [][Next]_vars


(* ---------------------------- helpers for the properties --------------- *)

\* the value a lookup of name n finds in store s
Stored(s, n) == IF n \in DOMAIN s THEN s[n] ELSE None

\* the bus accesses run_test has logged, in order
Accesses == SelectSeq(log, LAMBDA r : r.kind \in {"WRITE", "READ"})

Writes == SelectSeq(log, LAMBDA r : r.kind = "WRITE")

\* the accesses of a run whose Step 1 check passes, up to the Step 2 check
PassingRun(v) ==
    << Rec("WRITE", "PowerSupply", I(1)),
       Rec("WRITE", "EngineStart", I(1)),
       Rec("READ", "CruiseControlActive", I(0)),
       Rec("READ", "CruiseControlEnabledSwitch", I(0)),
       Rec("READ", "CruiseControlStates", I(0)),
       Rec("READ", "CruiseControlSetSpeed", I(0)),
       Rec("WRITE", "VehicleSpeed", I(v)),
       Rec("WRITE", "AccPedal", I(40)),
       Rec("WRITE", "GearIncreaseOne", I(1)),
       Rec("WRITE", "CruiseControlSetButton", I(1)) >>

\* how many of them have happened when run_test is at statement p
AccessesAt(p) ==
    CASE p = "target_speed"        -> 6
      [] p = "press_acc_pedal"     -> 7
      [] p = "increase_gear"       -> 8
      [] p = "press_cc_set_button" -> 9
      [] OTHER                     -> 10

IsPrefix(s, t) == Len(s) <= Len(t) /\ \A i \in 1..Len(s) : s[i] = t[i]

VerifyOps == {"verify_inactive", "verify_active"}

(* ---------------------------- C1 --------------------------------------- *)
\* C1: when the Step 1 check of run_test is false, the run is in Step1Failed
\* and stays there (no step is enabled), no Step 2 signal has been written
\* (VehicleSpeed, AccPedal, GearIncreaseOne, CruiseControlSetButton are as
\* they were when run_test was entered) and verify_cruise_control_active has
\* not been evaluated.
C1_Step1FailureHalts ==
    step1 = "False" =>
        /\ pc = "Step1Failed"
        /\ ~ ENABLED Next
        /\ step2 = ""
        /\ \A n \in Step2Names :
               /\ (n \in DOMAIN signals) <=> (n \in DOMAIN pre)
               /\ Stored(signals, n) = Stored(pre, n)
        /\ \A i \in 1..Len(log) :
               log[i].kind = "WRITE" => log[i].name \in Step1Names

C1_Witness ==
    /\ pc = "Step1Failed"
    /\ step1 = "False"
    /\ pre["CruiseControlActive"] = I(1)
    /\ "AccPedal" \notin DOMAIN signals

(* ---------------------------- C2 --------------------------------------- *)
\* C2: entered on the freshly seeded store, power_on and engine_start write
\* PowerSupply and EngineStart and nothing else, the four cruise-control
\* signals are still 0, and verify_cruise_control_inactive() is true.
C2_FreshBaselinePasses ==
    (pre = Seeded /\ pc \in {"verify_inactive", "target_speed"}) =>
        /\ signals = write(write(Seeded, "PowerSupply", I(1)), "EngineStart", I(1))
        /\ \A n \in CCSignals : signals[n] = I(0)
        /\ verify_cruise_control_inactive(St).result = "True"
        /\ pc = "target_speed" => step1 = "True"

C2_Witness ==
    /\ pre = Seeded
    /\ pc = "target_speed"
    /\ step1 = "True"
    /\ Len(Writes) = 2

(* ---------------------------- C3 --------------------------------------- *)
\* C3: after write(name, value) a read of name finds exactly value, the
\* stored names are those before the write plus name, and every other name
\* has the value it had; a read returns the value the store holds, and a
\* call that is not a write changes the value found under no name.
C3_WriteThenRead ==
    /\ last.op = "write" =>
           /\ read(signals, last.name).value = last.arg
           /\ DOMAIN signals = (DOMAIN last.before) \cup {last.name}
           /\ \A n \in DOMAIN last.before :
                  n # last.name => signals[n] = last.before[n]
    /\ last.op = "read" => last.value = Stored(signals, last.name)
    /\ last.op \in VerifyOps \cup {"read"} =>
           \A n \in Names : Stored(signals, n) = Stored(last.before, n)

C3_Witness ==
    /\ last.op = "write"
    /\ last.name = "AccPedal"
    /\ "AccPedal" \notin DOMAIN last.before
    /\ last.arg = I(36)
    /\ signals["AccPedal"] = I(36)

(* ---------------------------- C4 --------------------------------------- *)
\* C4: a read of a name that was never seeded or written returns None (not
\* 0) and does not create the name; a read of a pre-seeded name before any
\* write returns 0.
C4_AbsentReadsNone ==
    last.op = "read" =>
        /\ last.name \notin DOMAIN last.before =>
               /\ last.value = None
               /\ last.value # I(0)
               /\ last.name \notin DOMAIN signals
        /\ (nops = 0 /\ last.name \in SeededNames) => last.value = I(0)

C4_Witness ==
    /\ last.op = "read"
    /\ last.name = "PowerSupply"
    /\ last.value = None
    /\ "PowerSupply" \notin DOMAIN signals

(* ---------------------------- C5 --------------------------------------- *)
\* C5: verify_cruise_control_inactive() returns True exactly when the four
\* cruise-control signals are all 0, and False otherwise.
C5_InactiveIffAllZero ==
    last.op = "verify_inactive" =>
        /\ last.result \in {"True", "False"}
        /\ last.result = "True" <=>
               \A n \in CCSignals : Stored(last.before, n) = I(0)

C5_Witness ==
    /\ last.op = "verify_inactive"
    /\ last.result = "False"
    /\ last.before["CruiseControlSetSpeed"] = I(1)
    /\ \A n \in CCSignals \ {"CruiseControlSetSpeed"} : last.before[n] = I(0)

(* ---------------------------- C6 --------------------------------------- *)
\* C6: verify_cruise_control_active(m) returns True exactly when
\* CruiseControlActive = 1, CruiseControlEnabledSwitch = 1,
\* CruiseControlStates = 6 and CruiseControlSetSpeed is a number <= m; when
\* CruiseControlSetSpeed is a number the result is True or False.
C6_ActiveIffAllHold ==
    last.op = "verify_active" =>
        LET s     == last.before
            speed == Stored(s, "CruiseControlSetSpeed")
        IN  /\ last.result = "True" <=>
                   /\ Stored(s, "CruiseControlActive") = I(1)
                   /\ Stored(s, "CruiseControlEnabledSwitch") = I(1)
                   /\ Stored(s, "CruiseControlStates") = I(6)
                   /\ speed # None
                   /\ speed[1] <= last.arg[1]
            /\ speed # None => last.result \in {"True", "False"}

C6_Witness ==
    /\ last.op = "verify_active"
    /\ last.arg = I(35)
    /\ last.before["CruiseControlSetSpeed"] = I(35)
    /\ last.result = "True"

\* the other side of the boundary: set speed one above the maximum
C6_WitnessAbove ==
    /\ last.op = "verify_active"
    /\ last.arg = I(35)
    /\ last.before["CruiseControlActive"] = I(1)
    /\ last.before["CruiseControlEnabledSwitch"] = I(1)
    /\ last.before["CruiseControlStates"] = I(6)
    /\ last.before["CruiseControlSetSpeed"] = I(36)
    /\ last.result = "False"

(* ---------------------------- C7 --------------------------------------- *)
\* C7: whenever one of the four cruise-control signals is absent (None),
\* both predicates return False; neither raises.
C7_AbsentComparesFalse ==
    (/\ last.op \in VerifyOps
     /\ \E n \in CCSignals : Stored(last.before, n) = None)
        => last.result = "False"

(* ---------------------------- C8 --------------------------------------- *)
\* C8: in a run whose Step 1 check passed, the bus accesses are, in order:
\* PowerSupply=1, EngineStart=1, the four reads of the Step 1 check,
\* VehicleSpeed=v with v in 30..35, AccPedal=40, GearIncreaseOne=1,
\* CruiseControlSetButton=1, and after these only the reads of
\* verify_cruise_control_active(); once that has a result the run has
\* ended, with no step enabled.
C8_PassingRunOrder ==
    step1 = "True" =>
        /\ \E v \in 30..35 :
               IF Len(Accesses) <= 10
               THEN IsPrefix(Accesses, PassingRun(v))
               ELSE /\ IsPrefix(PassingRun(v), Accesses)
                    /\ \A i \in 11..Len(Accesses) : Accesses[i].kind = "READ"
        /\ pc \notin Terminal => Len(Accesses) = AccessesAt(pc)
        /\ pc \in Terminal <=> step2 # ""
        /\ pc \in Terminal =>
               /\ pc = "Step2Checked"
               /\ step2 \in {"True", "False"}
               /\ Len(Writes) = 6
               /\ Len(Accesses) > 10
               /\ ~ ENABLED Next

C8_Witness ==
    /\ step1 = "True"
    /\ pc = "Step2Checked"
    /\ Len(Writes) = 6
    /\ signals["VehicleSpeed"] = I(35)

(* ---------------------------- C9 --------------------------------------- *)
\* C9: read(name) and both verification predicates leave the store as it
\* was: the same names with the same values, whatever the result and
\* however many signals were read.
C9_ReadsLeaveStore ==
    last.op \in VerifyOps \cup {"read"} => signals = last.before

C9_Witness ==
    /\ last.op = "verify_active"
    /\ last.reads = 2
    /\ last.result = "False"
    /\ signals = last.before

(* ---------------------------- C10 -------------------------------------- *)
\* C10: run_test writes none of the four cruise-control signals; entered on
\* the freshly seeded store they stay 0, the Step 1 check passes, and the
\* run ends in Step2Checked with verify_cruise_control_active() False.
C10_FreshRunFailsStep2 ==
    /\ \A i \in 1..Len(log) :
           log[i].kind = "WRITE" => log[i].name \notin CCSignals
    /\ (pre = Seeded /\ pc # "idle") =>
           /\ \A n \in CCSignals : signals[n] = I(0)
           /\ step1 \in {"", "True"}
           /\ step2 \in {"", "False"}
           /\ pc \in Terminal => (pc = "Step2Checked" /\ step2 = "False")

C10_Witness ==
    /\ pre = Seeded
    /\ pc = "Step2Checked"
    /\ step2 = "False"
    /\ step1 = "True"

====
